---- MODULE Spec2Model ----
(***************************************************************************)
(* Bulk email verification: the coordinator (BulkEmailVerifier), the       *)
(* validation pipeline with its cache and SMTP sweep (EmailValidator) and  *)
(* the aggregator (EmailUtils.update_files).                               *)
(*                                                                         *)
(* Strings are sequences of one-character strings, so that strip(),        *)
(* lower(), split('@') and the '@' test are computed, not assumed.         *)
(* Timestamps (validation_time, validation_date) are abstracted to the     *)
(* tokens "elapsed" and "now"; quality_score is kept in tenths.            *)
(***************************************************************************)
EXTENDS Integers, Sequences, FiniteSets, TLC

(* ------------------------------ bounds -------------------------------- *)
\* worker threads of the pool in the small scenarios (max_workers argument)
MaxWorkers == 2
\* validate_emails calls explored in one behaviour
MaxRuns == 2
\* largest input of the batch scenarios (one more than batch_size)
MaxBatchEmails == 101

(* ------------------------- program constants -------------------------- *)
\* bulk_verifier.py:144
batch_size == 100
\* email_validate.py:31  self.mailer['ports']
ports == <<25, 587, 465>>
\* email_validate.py:181-185, in tenths
weight == 2

NoneV == "None"

(* ------------------------------ strings ------------------------------- *)
\* str.lower() on one character
LowerChar(c) ==
    CASE c = "A" -> "a"
      [] c = "B" -> "b"
      [] c = "D" -> "d"
      [] c = "X" -> "x"
      [] OTHER -> c

\* str.lower()
Lower(s) == [i \in 1..Len(s) |-> LowerChar(s[i])]

IsSpace(c) == c \in {" ", "\n"}

RECURSIVE LStrip(_)
LStrip(s) == IF s # <<>> /\ IsSpace(Head(s)) THEN LStrip(Tail(s)) ELSE s

RECURSIVE RStrip(_)
RStrip(s) ==
    IF s # <<>> /\ IsSpace(s[Len(s)]) THEN RStrip(SubSeq(s, 1, Len(s) - 1)) ELSE s

\* str.strip()
Strip(s) == RStrip(LStrip(s))

\* c in s
Contains(s, c) == \E i \in 1..Len(s) : s[i] = c

\* s.split(c): the list of the parts between the occurrences of c
RECURSIVE Split(_, _)
Split(s, c) ==
    IF ~Contains(s, c) THEN <<s>>
    ELSE LET i == CHOOSE k \in 1..Len(s) :
                      s[k] = c /\ \A j \in 1..(k - 1) : s[j] # c
         IN <<SubSeq(s, 1, i - 1)>> \o Split(SubSeq(s, i + 1, Len(s)), c)

Range(q) == {q[i] : i \in 1..Len(q)}

\* the first occurrences of q, in order
Dedup(q) ==
    LET first == {i \in 1..Len(q) : \A j \in 1..(i - 1) : q[j] # q[i]}
        nth(k) == CHOOSE i \in first : Cardinality({j \in first : j < i}) = k - 1
    IN [k \in 1..Cardinality(first) |-> q[nth(k)]]

Reverse(q) == [i \in 1..Len(q) |-> q[Len(q) + 1 - i]]

SelectNotIn(q, S) == SelectSeq(q, LAMBDA x : x \notin S)

(* ------------------------- collaborator data -------------------------- *)
\* domains, as strings
DomD == <<"d">>
DomX == <<"x">>
DomZ == <<"z">>

\* disposable_email_domains: the two static domain sets
blocklist == {DomD, DomX}
allowlist == {DomX}

\* MX hosts the resolver may name
HostLists == {<<"h1">>, <<"h2", "h1">>}

\* smtp.verify reply codes, and 0 for a transport error (an exception of the
\* SMTP session: socket.timeout, SMTPServerDisconnected or any other)
TransportError == 0
SmtpReplies == {TransportError, 250, 251, 252, 550}

\* the reply to the QUIT that leaving the with block of line 157 sends:
\* smtplib raises SMTPResponseException when it is not 221
QuitOk == 221
QuitReplies == {QuitOk, 421}

\* dns.resolver.resolve(domain, 'MX'): an error, or the hosts of the answer
DnsAnswers ==
    {[ok |-> FALSE, hosts |-> <<>>]}
    \cup {[ok |-> TRUE, hosts |-> h] : h \in HostLists \cup {<<>>}}

\* validate_email(...): a verdict, or an exception
SyntaxReplies == {"valid", "invalid", "raise"}

\* collaborators that answer by key: the addresses the syntax validator
\* rejects, the domains without MX record, the domains whose servers accept
\* any address, the addresses the servers accept, the hosts that never answer
NoOracle ==
    [on |-> FALSE, invalid |-> {}, nomx |-> {}, catchall |-> {},
     deliverable |-> {}, deaf |-> {}]

(* ------------------------------ results ------------------------------- *)
\* validate(): the result dictionary at the start of a validation
NewResult(email) ==
    [email |-> email, is_valid |-> FALSE, has_mx_record |-> FALSE,
     is_disposable |-> FALSE, is_catchall |-> FALSE, is_deliverable |-> FALSE,
     quality_score |-> 0, validation_time |-> NoneV, error |-> NoneV]

\* _finalize_result
FinalizeResult(result) == [result EXCEPT !.validation_time = "elapsed"]

\* _calculate_quality_score, in tenths
CalculateQualityScore(result) ==
    (IF result.is_valid THEN weight ELSE 0)
    + (IF result.has_mx_record THEN weight ELSE 0)
    + (IF ~result.is_disposable THEN weight ELSE 0)
    + (IF ~result.is_catchall THEN weight ELSE 0)
    + (IF result.is_deliverable THEN weight ELSE 0)

\* _validate_email: the dictionary built when validate() itself raises
FallbackResult(email, text) ==
    [email |-> email, is_valid |-> FALSE, has_mx_record |-> FALSE,
     is_disposable |-> FALSE, is_catchall |-> FALSE, is_deliverable |-> FALSE,
     quality_score |-> 0, validation_time |-> NoneV, error |-> text,
     validation_date |-> "now"]

\* _validate_email: result['validation_date'] = datetime.now().isoformat()
WithDate(result) ==
    [k \in DOMAIN result \cup {"validation_date"} |->
        IF k = "validation_date" THEN "now" ELSE result[k]]

\* str() of a bool, as csv.DictWriter writes it
BoolStr(b) == IF b THEN "True" ELSE "False"

\* str() of the rounded score
ScoreStr(q) ==
    CASE q = 0 -> "0.0"
      [] q = 2 -> "0.2"
      [] q = 4 -> "0.4"
      [] q = 6 -> "0.6"
      [] q = 8 -> "0.8"
      [] OTHER -> "1.0"

\* csv.DictWriter.writerows: one row of strings per result (None is written
\* as the empty string)
CsvRow(r) ==
    [email |-> r.email,
     is_valid |-> BoolStr(r.is_valid),
     has_mx_record |-> BoolStr(r.has_mx_record),
     is_disposable |-> BoolStr(r.is_disposable),
     is_catchall |-> BoolStr(r.is_catchall),
     is_deliverable |-> BoolStr(r.is_deliverable),
     quality_score |-> ScoreStr(r.quality_score),
     validation_time |-> IF r.validation_time = NoneV THEN "" ELSE r.validation_time,
     error |-> IF r.error = NoneV THEN "" ELSE r.error,
     validation_date |-> r.validation_date]

CsvRows(results) == [i \in 1..Len(results) |-> CsvRow(results[i])]

(* ------------------------------- input -------------------------------- *)
\* lines of the input files, each with its line break
LineA == <<"a", "@", "d", "\n">>
LineAUpper == <<" ", "A", "@", "D", " ", "\n">>
LineBad == <<"b", "a", "d", "\n">>
LineB == <<"b", "@", "x", "\n">>
LineQuoted == <<"\"", "@", "\"", "@", "d", "\n">>
LineBlank == <<" ", "\n">>

LineTypo == <<"a", "@", " ", "d", "\n">>
LineC == <<"c", "@", "d", "\n">>
EmailA == <<"a", "@", "d">>
EmailTypo == <<"a", "@", " ", "d">>
EmailC == <<"c", "@", "d">>
EmailB == <<"b", "@", "x">>
EmailQuoted == <<"\"", "@", "\"", "@", "d">>

InputFile(lines) == [exists |-> TRUE, lines |-> lines]

\* the input file is absent (open() raises)
Missing == [exists |-> FALSE, lines |-> <<>>]

InputFiles ==
    { InputFile(<<LineA, LineAUpper, LineBad>>),
      InputFile(<<LineA, LineB>>),
      InputFile(<<LineQuoted, LineBlank>>),
      Missing }

Letters == <<"a", "b", "c", "d", "e", "f", "g", "h", "i", "j", "k">>

\* the i-th line of a batch input: a distinct, already normalized address
BatchLine(i) ==
    <<Letters[(i \div Len(Letters)) + 1], Letters[(i % Len(Letters)) + 1],
      "@", "z", "\n">>

BatchFile(n) == InputFile([i \in 1..n |-> BatchLine(i)])

\* _read_input_emails, line 48: the set comprehension over the lines, as the
\* sequence of its elements in file order
NormalizedLines(file) ==
    LET kept == SelectSeq(file.lines, LAMBDA line : Strip(line) # <<>> /\ Contains(line, "@"))
    IN [i \in 1..Len(kept) |-> Lower(Strip(kept[i]))]

\* a read that does not subtract the emails of the store
ReadInputEmailsAll(file, existing, seed) ==
    LET new == Dedup(NormalizedLines(file))
    IN IF seed = 0 THEN new ELSE Reverse(new)

\* _read_input_emails, line 49: list(emails - self.existing_emails).  The
\* iteration order of a Python set is fixed by the process's hash seed; two
\* seeds are explored, giving file order and its reverse.
ReadInputEmails(file, existing, seed) ==
    LET new == SelectNotIn(Dedup(NormalizedLines(file)), existing)
    IN IF seed = 0 THEN new ELSE Reverse(new)

\* the fixed collaborators explored
Oracles ==
    {[on |-> TRUE, invalid |-> i, nomx |-> n, catchall |-> c, deliverable |-> d,
      deaf |-> h] :
        i \in {{}, {EmailB}}, n \in {{}, {DomX}}, c \in {{}, {DomD}},
        d \in {{}, {EmailA}}, h \in {{}, {"h2"}, {"h1", "h2"}}}

(* ------------------------------- store -------------------------------- *)
\* a row written by an earlier run
PriorRow(email) == CsvRow(WithDate(FinalizeResult(NewResult(email))))

NoStore == [exists |-> FALSE, mode |-> "none", rows |-> <<>>]

InitialStores ==
    { NoStore,
      [exists |-> TRUE, mode |-> "ro", rows |-> <<PriorRow(EmailA)>>] }

\* _load_existing_emails: the email column of the store
LoadExistingEmails(store) ==
    IF store.exists THEN {store.rows[i].email : i \in 1..Len(store.rows)} ELSE {}

\* EmailValidator.__init__, lines 36-41
FreshCache ==
    [mx_records |-> <<>>, disposable |-> blocklist \ allowlist,
     catchall |-> <<>>, deliverable |-> <<>>]

\* clear_cache, lines 208-213
ClearedCache ==
    [mx_records |-> <<>>, disposable |-> allowlist,
     catchall |-> <<>>, deliverable |-> <<>>]

\* setup_directories: the four list files, created empty
EmptyDataFiles ==
    [valid_domains |-> {}, catchall_domains |-> {},
     not_catchall_domains |-> {}, verified_emails |-> {}]

\* the list files as an earlier pass of update_files wrote them
PriorDataFiles ==
    [valid_domains |-> {DomZ}, catchall_domains |-> {},
     not_catchall_domains |-> {DomZ}, verified_emails |-> {}]

(* ------------------------------- state -------------------------------- *)
VARIABLES
    input_file,       \* the input file: [exists, lines]
    hash_seed,        \* the process's hash seed (order of list(set))
    syntax_replies,   \* what validate_email may answer in this behaviour
    dns_answers,      \* what the resolver may answer in this behaviour
    smtp_replies,     \* what a host:port combination may reply in this behaviour
    quit_replies,     \* what a host may reply to QUIT in this behaviour
    oracle,           \* the collaborators' answers by key, when they are fixed
    output_file,      \* the store: [exists, mode, rows]
    data_files,       \* the four consolidated list files
    max_workers,      \* self.max_workers
    existing_emails,  \* self.existing_emails
    domain_cache,     \* self.validator.domain_cache
    cpc,              \* where the coordinating thread is
    ret,              \* where _write_results returns to
    emails,           \* validate_emails: emails
    futures,          \* tasks submitted and not yet taken by a worker
    done,             \* completed futures not yet yielded by as_completed
    results,          \* validate_emails: results (the buffer)
    pbar,             \* the progress counter
    outcome,          \* how the last call ended
    stats,            \* the statistics of the last analyze_results
    worker,           \* the pool's threads
    clock,            \* datetime.now() of the next synthetic address
    hist              \* history of the call in progress (not program state)

vars ==
    <<input_file, hash_seed, syntax_replies, dns_answers, smtp_replies, quit_replies,
      oracle,
      output_file, data_files, max_workers, existing_emails, domain_cache, cpc, ret, emails, futures, done, results,
      pbar, outcome, stats, worker, clock, hist>>

envVars ==
    <<input_file, hash_seed, syntax_replies, dns_answers, smtp_replies, quit_replies,
      oracle,
      max_workers>>
poolVars == <<futures, done, worker, clock, domain_cache>>
frameVars == <<emails, results, pbar>>

Workers == 1..MaxWorkers

\* the probe (_check_deliverability) a thread is in: what it is for, the
\* address probed, the hosts resolved and the combination reached.  History
\* only, kept when the probe has ended (phase "none" then): tried, the combinations a session was opened with so far, in order;
\* session, the commands of the latest of these sessions; first, the place in
\* tried and the code of the first verification that was answered; heard, the
\* code of the latest one (TransportError when none was).
NoProbe ==
    [phase |-> "none", key |-> <<>>, hosts |-> <<>>, i |-> 0, tried |-> <<>>,
     session |-> <<>>, first |-> [i |-> 0, code |-> 0], heard |-> 0]

\* the probe a thread has just ended: its address and the reply code of the
\* verification it returned at line 165 (TransportError when it ended at line
\* 175); history only
NoLast == [key |-> <<>>, code |-> 0]

\* gates (the gates evaluated) and calls (the collaborators invoked) are the
\* history of the task in hand
IdleWorker ==
    [pc |-> "idle", email |-> <<>>, domain |-> <<>>, result |-> NewResult(<<>>),
     probe |-> NoProbe, last |-> NoLast, gates |-> {}, calls |-> {}]

NoStats == [total_emails |-> 0, valid_syntax |-> 0, has_mx_record |-> 0,
            not_disposable |-> 0, not_catchall |-> 0, deliverable |-> 0,
            score_sum |-> 0]

\* load_ok: the last __init__ loaded the store; since: validate_emails calls
\* on this object; calls: calls in this behaviour; kind, rows0, read,
\* scheduled, appends, append_failed, fault, resets: the call in progress (or
\* the last one), the store's rows and mode as it began, what it has done and
\* whether the file system has refused it an operation; agg: the rows of the
\* store at the last pass of update_files that completed
NoHist ==
    [load_ok |-> TRUE, since |-> 0, calls |-> 0, kind |-> "none", rows0 |-> <<>>,
     mode0 |-> "none", read |-> "none", scheduled |-> {}, appends |-> <<>>,
     append_failed |-> FALSE, fault |-> FALSE, resets |-> 0,
     agg |-> [done |-> FALSE, rows |-> <<>>]]

\* f with key k set to v
Put(f, k, v) == [x \in DOMAIN f \cup {k} |-> IF x = k THEN v ELSE f[x]]

\* BulkEmailVerifier.__init__ on the files as they are: a new validator with a
\* new cache, and existing_emails loaded (empty when the load raises)
InitOn(files, stores, lists, oracles, syntax, dns, smtp, quit, nworkers) ==
    /\ input_file \in files
    /\ oracle \in oracles
    /\ hash_seed \in {0, 1}
    /\ syntax_replies = syntax
    /\ dns_answers = dns
    /\ smtp_replies = smtp
    /\ quit_replies = quit
    /\ output_file \in stores
    /\ data_files \in lists
    /\ max_workers = nworkers
    /\ \E ok \in (IF output_file.exists THEN BOOLEAN ELSE {TRUE}) :
          /\ existing_emails = (IF ok THEN LoadExistingEmails(output_file) ELSE {})
          /\ hist = [NoHist EXCEPT !.load_ok = ok]
    /\ domain_cache = FreshCache
    /\ cpc = "idle"
    /\ ret = "idle"
    /\ emails = <<>>
    /\ futures = <<>>
    /\ done = <<>>
    /\ results = <<>>
    /\ pbar = 0
    /\ outcome = "none"
    /\ stats = NoStats
    /\ worker = [w \in Workers |-> IdleWorker]
    /\ clock = 0

\* the list files empty and the collaborators free to answer within their sets
InitWith(files, stores, syntax, dns, smtp, quit, nworkers) ==
    InitOn(files, stores, {EmptyDataFiles}, {NoOracle}, syntax, dns, smtp, quit,
           nworkers)

\* the script (lines 178-180) on the small inputs, every collaborator free
\* but for the sessions, which close cleanly
Init ==
    InitWith(InputFiles, InitialStores, SyntaxReplies, DnsAnswers, SmtpReplies,
             {QuitOk}, MaxWorkers)

\* the object reused: the collaborators each give one answer
InitObject ==
    InitWith(InputFiles, InitialStores, {"valid"},
             {[ok |-> TRUE, hosts |-> <<"h1">>]}, {550}, {QuitOk}, MaxWorkers)

\* the script on the batch inputs, read by one worker; the syntax validator
\* rejects every address
InitBatch ==
    InitWith({BatchFile(n) : n \in {batch_size - 1, batch_size, MaxBatchEmails}},
             {NoStore}, {"invalid"}, DnsAnswers, SmtpReplies, {QuitOk}, 1)

\* the script on two addresses of one domain and one of another, the
\* collaborators answering by key
InitDeterministic ==
    InitOn({InputFile(<<LineA, LineC, LineB>>)}, {NoStore}, {EmptyDataFiles},
           Oracles, {}, {}, {}, {}, MaxWorkers)

\* the script on an address with a blank after its '@', the list files empty
\* or written by an earlier pass
InitAggregate ==
    InitOn({InputFile(<<LineA, LineTypo>>), InputFile(<<LineB>>)}, {NoStore},
           {EmptyDataFiles, PriorDataFiles}, {NoOracle}, {"valid", "invalid"},
           {[ok |-> TRUE, hosts |-> <<"h1">>]}, {250, 550}, {QuitOk}, MaxWorkers)

\* the same input, the servers free to answer each session as they like
InitRace ==
    InitOn({InputFile(<<LineA, LineC>>)}, {NoStore}, {EmptyDataFiles}, {NoOracle},
           {"valid"}, {[ok |-> TRUE, hosts |-> <<"h1">>]}, {250, 550}, {QuitOk}, MaxWorkers)

\* the script on one address that reaches the probes, the resolver and the
\* servers free in every session, the reply to QUIT included
InitSweep ==
    InitWith({InputFile(<<LineA>>)}, {NoStore}, {"valid"}, DnsAnswers, SmtpReplies,
             QuitReplies, MaxWorkers)

(* ---------------------------- coordinator ----------------------------- *)
\* BulkEmailVerifier(...): a new object on the same files
Construct ==
    /\ cpc = "idle"
    /\ \E ok \in (IF output_file.exists THEN BOOLEAN ELSE {TRUE}) :
          /\ existing_emails' = (IF ok THEN LoadExistingEmails(output_file) ELSE {})
          /\ hist' = [hist EXCEPT !.load_ok = ok, !.since = 0]
    /\ domain_cache' = FreshCache
    /\ outcome' = "none"
    /\ UNCHANGED <<envVars, output_file, data_files, cpc, ret, frameVars, futures,
                   done, stats, worker, clock>>

\* validate_emails is called
CallValidateEmails ==
    /\ cpc = "idle"
    /\ hist.calls < MaxRuns
    /\ cpc' = "ensure"
    /\ outcome' = "running"
    /\ hist' = [hist EXCEPT !.calls = @ + 1, !.since = @ + 1,
                            !.kind = "validate_emails", !.rows0 = output_file.rows,
                            !.mode0 = output_file.mode,
                            !.read = "none", !.scheduled = {}, !.appends = <<>>,
                            !.append_failed = FALSE, !.fault = FALSE, !.resets = 0]
    /\ UNCHANGED <<envVars, output_file, data_files, existing_emails, ret,
                   frameVars, poolVars, stats>>

\* the call ends: by return or by the raise of lines 174-176
EndCall(how) ==
    /\ cpc' = "idle"
    /\ ret' = "idle"
    /\ outcome' = how
    /\ emails' = <<>>
    /\ results' = <<>>
    /\ pbar' = 0

\* _ensure_output_file: create the store with its header, or make it writable
EnsureOutputFile ==
    /\ cpc = "ensure"
    /\ output_file' = [output_file EXCEPT !.exists = TRUE, !.mode = "rw"]
    /\ cpc' = "read"
    /\ UNCHANGED <<envVars, data_files, existing_emails, ret, frameVars, poolVars,
                   outcome, stats, hist>>

\* _ensure_output_file raises (lines 78-83): validate_emails raises
EnsureOutputFileFails ==
    /\ cpc = "ensure"
    /\ EndCall("raised")
    /\ hist' = [hist EXCEPT !.fault = TRUE]
    /\ UNCHANGED <<envVars, output_file, data_files, existing_emails, poolVars, stats>>

\* lines 136-147: read the input; return when nothing is new, else submit one
\* task per email
ReadInput ==
    /\ cpc = "read"
    /\ LET new == IF input_file.exists
                  THEN ReadInputEmails(input_file, existing_emails, hash_seed)
                  ELSE <<>>
       IN /\ hist' = [hist EXCEPT !.read = IF input_file.exists THEN "ok" ELSE "failed",
                                  !.scheduled = Range(new)]
          /\ IF new = <<>>
             THEN /\ EndCall("returned")
                  /\ UNCHANGED futures
             ELSE /\ emails' = new
                  /\ futures' = new
                  /\ results' = <<>>
                  /\ pbar' = 0
                  /\ cpc' = "collect"
                  /\ UNCHANGED <<ret, outcome>>
    /\ UNCHANGED <<envVars, output_file, data_files, existing_emails, done, worker,
                   clock, domain_cache, stats>>

\* a buffer that is due only once it holds more than batch_size results
FlushDueLate(buffer) == Len(buffer) > batch_size

\* line 156: the buffer is due
FlushDue(buffer) == Len(buffer) >= batch_size

\* lines 150-158: take the next completed future, buffer its result, and
\* write the buffer once it holds batch_size results
Collect ==
    /\ cpc = "collect"
    /\ done # <<>>
    /\ results' = Append(results, Head(done))
    /\ done' = Tail(done)
    /\ pbar' = pbar + 1
    /\ IF FlushDue(results')
       THEN cpc' = "wr_chmod" /\ ret' = "collect"
       ELSE UNCHANGED <<cpc, ret>>
    /\ UNCHANGED <<envVars, output_file, data_files, existing_emails, emails,
                   futures, worker, clock, domain_cache, outcome, stats, hist>>

\* every future has been yielded: leave the with blocks
LoopExit ==
    /\ cpc = "collect"
    /\ pbar = Len(emails)
    /\ cpc' = "final"
    /\ UNCHANGED <<envVars, output_file, data_files, existing_emails, ret,
                   frameVars, poolVars, outcome, stats, hist>>

\* lines 161-162: write the remaining results
FinalFlush ==
    /\ cpc = "final"
    /\ IF results # <<>>
       THEN cpc' = "wr_chmod" /\ ret' = "aggregate"
       ELSE cpc' = "aggregate" /\ UNCHANGED ret
    /\ UNCHANGED <<envVars, output_file, data_files, existing_emails, frameVars,
                   poolVars, outcome, stats, hist>>

(* --------------------------- _write_results --------------------------- *)
\* a failed write that validate_emails swallows, going on to the aggregation
WriteFailedGoesOn(refused) ==
    /\ hist' = [hist EXCEPT !.append_failed = TRUE, !.fault = @ \/ refused]
    /\ cpc' = "aggregate"
    /\ UNCHANGED <<ret, outcome, frameVars>>

\* _write_results raises (lines 125-130).  Inside the with block of
\* validate_emails the executor first runs the tasks still queued to their end
\* (ThreadPoolExecutor.__exit__), and then validate_emails raises.
WriteFailed(refused) ==
    /\ hist' = [hist EXCEPT !.append_failed = TRUE, !.fault = @ \/ refused]
    /\ IF ret = "collect"
       THEN cpc' = "shutdown" /\ UNCHANGED <<ret, outcome, frameVars>>
       ELSE EndCall("raised")

\* lines 115-116: chmod 0o666 when the store exists
WrChmod ==
    /\ cpc = "wr_chmod"
    /\ output_file' = IF output_file.exists
                      THEN [output_file EXCEPT !.mode = "rw"] ELSE output_file
    /\ cpc' = "wr_append"
    /\ UNCHANGED <<envVars, data_files, existing_emails, ret, frameVars, poolVars,
                   outcome, stats, hist>>

\* the chmod raises PermissionError
WrChmodFails ==
    /\ cpc = "wr_chmod"
    /\ WriteFailed(TRUE)
    /\ UNCHANGED <<envVars, output_file, data_files, existing_emails, poolVars, stats>>

\* lines 119-121: open for append (creating the file), then write the rows
\* with the keys of results[0] as columns; results[0] of an empty list raises
\* IndexError once the file is open
WrAppend ==
    /\ cpc = "wr_append"
    /\ IF results = <<>>
       THEN /\ output_file' = [output_file EXCEPT !.exists = TRUE, !.mode = "rw"]
            /\ WriteFailed(FALSE)
       ELSE /\ output_file' = [output_file EXCEPT !.exists = TRUE, !.mode = "rw",
                                                  !.rows = @ \o CsvRows(results)]
            /\ hist' = [hist EXCEPT !.appends =
                           Append(@, [size |-> Len(results),
                                      at |-> IF ret = "collect" THEN "loop" ELSE "final"])]
            /\ cpc' = "wr_lock"
            /\ UNCHANGED <<ret, outcome, frameVars>>
    /\ UNCHANGED <<envVars, data_files, existing_emails, poolVars, stats>>

\* open() or the write raises: nothing is appended
WrAppendFails ==
    /\ cpc = "wr_append"
    /\ results # <<>>
    /\ WriteFailed(TRUE)
    /\ UNCHANGED <<envVars, output_file, data_files, existing_emails, poolVars, stats>>

\* line 124: chmod 0o444, and return to the caller (line 158 empties the
\* buffer after a write inside the loop)
WrLock ==
    /\ cpc = "wr_lock"
    /\ output_file' = [output_file EXCEPT !.mode = "ro"]
    /\ IF ret = "idle"
       THEN EndCall("returned")
       ELSE /\ cpc' = ret
            /\ results' = IF ret = "collect" THEN <<>> ELSE results
            /\ UNCHANGED <<ret, outcome, emails, pbar>>
    /\ UNCHANGED <<envVars, data_files, existing_emails, poolVars, stats, hist>>

\* a failed write inside the loop: the pool has run dry, validate_emails raises
Shutdown ==
    /\ cpc = "shutdown"
    /\ futures = <<>>
    /\ \A w \in Workers : worker[w].pc = "idle"
    /\ done' = <<>>
    /\ EndCall("raised")
    /\ UNCHANGED <<envVars, output_file, data_files, existing_emails, futures,
                   worker, clock, domain_cache, stats, hist>>

\* the Persistence Manager's append called on its own with an empty list, on
\* a store that ensure has created
CallWriteResultsEmpty ==
    /\ cpc = "idle"
    /\ output_file.exists
    /\ results = <<>>
    /\ cpc' = "wr_chmod"
    /\ ret' = "idle"
    /\ outcome' = "running"
    /\ hist' = [hist EXCEPT !.kind = "write_results", !.rows0 = output_file.rows,
                            !.mode0 = output_file.mode,
                            !.read = "none", !.scheduled = {}, !.appends = <<>>,
                            !.append_failed = FALSE, !.fault = FALSE, !.resets = 0]
    /\ UNCHANGED <<envVars, output_file, data_files, existing_emails, frameVars,
                   poolVars, stats>>

(* ----------------------------- aggregator ----------------------------- *)
\* update_files, line 89: email.split('@')[1]
RowDomain(row) == Split(row.email, "@")[2]

RowsWith(rows, column, text) ==
    {i \in 1..Len(rows) : rows[i][column] = text}

\* update_files, lines 63-108: each list file becomes the union of its lines
\* and of what the rows of the store give
UpdatedFiles(files, rows) ==
    [valid_domains |->
        {Strip(x) : x \in files.valid_domains}
        \cup {RowDomain(rows[i]) : i \in RowsWith(rows, "has_mx_record", "True")},
     catchall_domains |->
        {Strip(x) : x \in files.catchall_domains}
        \cup {RowDomain(rows[i]) : i \in RowsWith(rows, "is_catchall", "True")},
     not_catchall_domains |->
        {Strip(x) : x \in files.not_catchall_domains}
        \cup {RowDomain(rows[i]) : i \in RowsWith(rows, "is_catchall", "False")},
     verified_emails |->
        {Strip(x) : x \in files.verified_emails}
        \cup {rows[i].email : i \in RowsWith(rows, "is_deliverable", "True")}]

\* float(row['quality_score']), in tenths
ScoreOf(text) ==
    CASE text = "0.0" -> 0
      [] text = "0.2" -> 2
      [] text = "0.4" -> 4
      [] text = "0.6" -> 6
      [] text = "0.8" -> 8
      [] OTHER -> 10

RECURSIVE SumScores(_)
SumScores(rows) ==
    IF rows = <<>> THEN 0 ELSE ScoreOf(Head(rows).quality_score) + SumScores(Tail(rows))

\* analyze_results, lines 161-189 (the mean is score_sum / total_emails)
AnalyzedStats(rows) ==
    [total_emails |-> Len(rows),
     valid_syntax |-> Cardinality(RowsWith(rows, "is_valid", "True")),
     has_mx_record |-> Cardinality(RowsWith(rows, "has_mx_record", "True")),
     not_disposable |-> Cardinality(RowsWith(rows, "is_disposable", "False")),
     not_catchall |-> Cardinality(RowsWith(rows, "is_catchall", "False")),
     deliverable |-> Cardinality(RowsWith(rows, "is_deliverable", "True")),
     score_sum |-> SumScores(rows)]

\* EmailUtils.update_files called on its own, on a store that exists
CallUpdateFiles ==
    /\ cpc = "idle"
    /\ output_file.exists
    /\ cpc' = "aggregate"
    /\ ret' = "idle"
    /\ outcome' = "running"
    /\ hist' = [hist EXCEPT !.kind = "update_files", !.rows0 = output_file.rows,
                            !.mode0 = output_file.mode,
                            !.read = "none", !.scheduled = {}, !.appends = <<>>,
                            !.append_failed = FALSE, !.fault = FALSE, !.resets = 0]
    /\ UNCHANGED <<envVars, output_file, data_files, existing_emails, frameVars,
                   poolVars, stats>>

\* line 165: update_files
UpdateFiles ==
    /\ cpc = "aggregate"
    /\ data_files' = UpdatedFiles(data_files, output_file.rows)
    /\ hist' = [hist EXCEPT !.agg = [done |-> TRUE, rows |-> output_file.rows]]
    /\ IF hist.kind = "update_files"
       THEN EndCall("returned")
       ELSE cpc' = "clear" /\ UNCHANGED <<ret, frameVars, outcome>>
    /\ UNCHANGED <<envVars, output_file, existing_emails, poolVars, stats>>

\* update_files raises (lines 112-114): validate_emails raises
UpdateFilesFails ==
    /\ cpc = "aggregate"
    /\ EndCall("raised")
    /\ hist' = [hist EXCEPT !.fault = TRUE]
    /\ UNCHANGED <<envVars, output_file, data_files, existing_emails, poolVars, stats>>

\* line 166: clear_cache
ClearCache ==
    /\ cpc = "clear"
    /\ domain_cache' = ClearedCache
    /\ hist' = [hist EXCEPT !.resets = @ + 1]
    /\ cpc' = "analyze"
    /\ UNCHANGED <<envVars, output_file, data_files, existing_emails, ret,
                   frameVars, futures, done, worker, clock, outcome, stats>>

\* lines 169-172: the statistics, and the return
AnalyzeResults ==
    /\ cpc = "analyze"
    /\ stats' = AnalyzedStats(output_file.rows)
    /\ EndCall("returned")
    /\ UNCHANGED <<envVars, output_file, data_files, existing_emails, poolVars, hist>>

(* ------------------------------ validator ----------------------------- *)
\* validate_email(email, ...), line 89
SyntaxRepliesFor(email) ==
    IF ~oracle.on THEN syntax_replies
    ELSE IF email \in oracle.invalid THEN {"invalid"} ELSE {"valid"}

\* dns.resolver.resolve(domain, 'MX'), lines 126 and 151
DnsAnswersFor(domain) ==
    IF ~oracle.on THEN dns_answers
    ELSE IF domain \in oracle.nomx
         THEN {[ok |-> FALSE, hosts |-> <<>>]}
         ELSE {[ok |-> TRUE, hosts |-> <<"h2", "h1">>]}

\* the session of lines 157-162 with host:port for the address key: the code
\* of smtp.verify, or a transport error
SmtpRepliesFor(key, host, port) ==
    IF ~oracle.on THEN smtp_replies
    ELSE IF host \in oracle.deaf THEN {TransportError}
         ELSE IF key \in oracle.deliverable \/ Split(key, "@")[2] \in oracle.catchall
              THEN {250}
              ELSE {550}

\* _check_catchall, line 140: the synthetic address for the timestamp ts
TestEmail(ts, domain) == <<"t", ToString(ts), "@">> \o domain

\* a sweep with the ports in the outer loop and the hosts in the inner one
CombosPortsOuter(hosts) ==
    [n \in 1..(Len(ports) * Len(hosts)) |->
        [host |-> hosts[((n - 1) % Len(hosts)) + 1],
         port |-> ports[((n - 1) \div Len(hosts)) + 1]]]

\* _check_deliverability, lines 154-155: the host:port combinations in the
\* order the nested loops reach them
RECURSIVE Combos(_)
Combos(hosts) ==
    IF hosts = <<>> THEN <<>>
    ELSE [p \in 1..Len(ports) |-> [host |-> Head(hosts), port |-> ports[p]]]
         \o Combos(Tail(hosts))

\* line 163
IsDeliverableCode(code) == code = 250 \/ code = 251 \/ code = 252

\* the QUIT of the with block of line 157, sent when the block is left after
\* smtp.verify has answered
QuitRepliesFor(host) == IF ~oracle.on THEN quit_replies ELSE {QuitOk}

\* lines 158-162: the commands of one session on a port, in order; a
\* transport error cuts the session short
SessionCommands(port) ==
    <<"ehlo">> \o (IF port = 587 THEN <<"starttls", "ehlo">> ELSE <<>>) \o <<"vrfy">>

\* a syntax gate that lets an address it found invalid go on to the MX gate
AfterSyntaxGoesOn(me, reply) ==
    LET result == NewResult(me.email)
        parts == Split(me.email, "@")
    IN CASE reply = "raise" ->
              [me EXCEPT !.pc = "fin",
                         !.result = FinalizeResult(
                             [result EXCEPT !.error = "ValidatorError"])]
         [] OTHER ->
              IF Len(parts) # 2
              THEN [me EXCEPT !.pc = "fin",
                              !.result = FinalizeResult(
                                  [result EXCEPT !.is_valid = (reply = "valid"),
                                                 !.error = "ValueError"])]
              ELSE [me EXCEPT !.pc = "mx", !.domain = parts[2],
                              !.result = [result EXCEPT !.is_valid = (reply = "valid")]]

\* validate(), lines 87-94 and 115-119: the syntax gate, and the domain.  An
\* exception of the validator, or of the unpacking of email.split('@'), is
\* caught by the except of line 115, which keeps what the result already holds.
AfterSyntax(me, reply) ==
    LET result == NewResult(me.email)
        parts == Split(me.email, "@")
    IN CASE reply = "raise" ->
              [me EXCEPT !.pc = "fin",
                         !.result = FinalizeResult(
                             [result EXCEPT !.error = "ValidatorError"])]
         [] reply = "invalid" ->
              [me EXCEPT !.pc = "fin", !.result = FinalizeResult(result)]
         [] OTHER ->
              IF Len(parts) # 2
              THEN [me EXCEPT !.pc = "fin",
                              !.result = FinalizeResult(
                                  [result EXCEPT !.is_valid = TRUE,
                                                 !.error = "ValueError"])]
              ELSE [me EXCEPT !.pc = "mx", !.domain = parts[2],
                              !.result = [result EXCEPT !.is_valid = TRUE]]

\* the pool's thread w takes the next task (_validate_email, line 88) and
\* runs validate() up to the domain
StartValidate(w) ==
    /\ w <= max_workers
    /\ worker[w].pc = "idle"
    /\ futures # <<>>
    /\ futures' = Tail(futures)
    /\ \E reply \in SyntaxRepliesFor(Head(futures)) :
         worker' = [worker EXCEPT ![w] =
            AfterSyntax([IdleWorker EXCEPT !.email = Head(futures),
                                           !.gates = {"syntax"},
                                           !.calls = {"validate_email"}], reply)]
    /\ UNCHANGED <<envVars, output_file, data_files, existing_emails, domain_cache,
                   cpc, ret, frameVars, done, outcome, stats, clock, hist>>

\* the MX gate has its answer: lines 97-99
AfterMx(me, has_mx) ==
    LET r == [me.result EXCEPT !.has_mx_record = has_mx]
    IN IF ~has_mx
       THEN [me EXCEPT !.pc = "fin", !.result = FinalizeResult(r),
                       !.gates = @ \cup {"mx"}]
       ELSE [me EXCEPT !.pc = "disp", !.result = r, !.gates = @ \cup {"mx"}]

\* _check_mx_record, lines 123-124: the cache is asked first
MxLookup(w) ==
    /\ worker[w].pc = "mx"
    /\ LET domain == worker[w].domain
       IN worker' = [worker EXCEPT ![w] =
            IF domain \in DOMAIN domain_cache.mx_records
            THEN AfterMx(worker[w], domain_cache.mx_records[domain])
            ELSE [worker[w] EXCEPT !.pc = "mxres"]]
    /\ UNCHANGED <<envVars, output_file, data_files, existing_emails, domain_cache,
                   cpc, ret, frameVars, futures, done, outcome, stats, clock, hist>>

\* _check_mx_record, lines 126-133: resolve, and cache what was resolved
MxResolve(w) ==
    /\ worker[w].pc = "mxres"
    /\ \E ans \in DnsAnswersFor(worker[w].domain) :
         LET has_mx == ans.ok /\ ans.hosts # <<>>
             me == [worker[w] EXCEPT !.calls = @ \cup {"dns"}]
         IN /\ domain_cache' =
                 IF ans.ok
                 THEN [domain_cache EXCEPT !.mx_records = Put(@, me.domain, has_mx)]
                 ELSE domain_cache
            /\ worker' = [worker EXCEPT ![w] = AfterMx(me, has_mx)]
    /\ UNCHANGED <<envVars, output_file, data_files, existing_emails, cpc, ret,
                   frameVars, futures, done, outcome, stats, clock, hist>>

\* a flag that is true for the domains of the snapshot
IsDisposableInSnapshot(domain, snapshot) == domain \in snapshot

\* line 102: the disposable flag
IsDisposable(domain, snapshot) == domain \notin snapshot

\* lines 102-104: the disposable gate
Disposable(w) ==
    /\ worker[w].pc = "disp"
    /\ LET flag == IsDisposable(worker[w].domain, domain_cache.disposable)
           me == [worker[w] EXCEPT !.result.is_disposable = flag,
                                   !.gates = @ \cup {"disposable"}]
       IN worker' = [worker EXCEPT ![w] =
            IF flag
            THEN [me EXCEPT !.pc = "fin", !.result = FinalizeResult(me.result)]
            ELSE [me EXCEPT !.pc = "catch"]]
    /\ UNCHANGED <<envVars, output_file, data_files, existing_emails, domain_cache,
                   cpc, ret, frameVars, futures, done, outcome, stats, clock, hist>>

\* what is remembered of a probe that ends
LastOf(probe, code) == [key |-> probe.key, code |-> code]

\* the history of a probe that has ended
Ended(probe) == [probe EXCEPT !.phase = "none", !.i = 0, !.key = <<>>]

\* a probe ends with this value: _check_catchall stores it and the catchall
\* gate is done (lines 141-143, 107); for the address itself the score
\* follows (lines 110-113, 119)
WorkerAfterProbe(me, value, code) ==
    IF me.probe.phase = "catchall"
    THEN [me EXCEPT !.pc = "deliv", !.result.is_catchall = value,
                    !.gates = @ \cup {"catchall"}, !.probe = Ended(me.probe),
                    !.last = LastOf(me.probe, code)]
    ELSE LET r == [me.result EXCEPT !.is_deliverable = value]
         IN [me EXCEPT !.pc = "fin",
                       !.result = FinalizeResult(
                           [r EXCEPT !.quality_score = CalculateQualityScore(r)]),
                       !.gates = @ \cup {"deliverability", "score"},
                       !.probe = Ended(me.probe),
                       !.last = LastOf(me.probe, code)]

\* a catchall map that keeps the opposite of what the probe returned
CatchallAfterProbeNegated(cache, me, value) ==
    IF me.probe.phase = "catchall"
    THEN [cache EXCEPT !.catchall = Put(@, me.domain, ~value)]
    ELSE cache

\* line 142: the catchall map after a probe for _check_catchall
CatchallAfterProbe(cache, me, value) ==
    IF me.probe.phase = "catchall"
    THEN [cache EXCEPT !.catchall = Put(@, me.domain, value)]
    ELSE cache

\* _check_catchall, lines 137-141, and line 147 for the synthetic address
CatchallLookup(w) ==
    /\ worker[w].pc = "catch"
    /\ LET me == worker[w]
           key == TestEmail(clock, me.domain)
       IN IF me.domain \in DOMAIN domain_cache.catchall
          THEN /\ worker' = [worker EXCEPT ![w] =
                     [me EXCEPT !.pc = "deliv",
                                !.result.is_catchall = domain_cache.catchall[me.domain],
                                !.gates = @ \cup {"catchall"}]]
               /\ UNCHANGED <<clock, domain_cache>>
          ELSE /\ clock' = clock + 1
               /\ IF key \in DOMAIN domain_cache.deliverable
                  THEN LET value == domain_cache.deliverable[key]
                           probing == [me EXCEPT !.probe.phase = "catchall",
                                                 !.probe.key = key]
                       IN /\ worker' = [worker EXCEPT ![w] =
                                [WorkerAfterProbe(probing, value, TransportError)
                                    EXCEPT !.last = NoLast, !.probe = NoProbe]]
                          /\ domain_cache' = CatchallAfterProbe(domain_cache, probing, value)
                  ELSE /\ worker' = [worker EXCEPT ![w] =
                             [me EXCEPT !.pc = "resolve",
                                        !.probe = [NoProbe EXCEPT !.phase = "catchall",
                                                                  !.key = key]]]
                       /\ UNCHANGED domain_cache
    /\ UNCHANGED <<envVars, output_file, data_files, existing_emails, cpc, ret,
                   frameVars, futures, done, outcome, stats, hist>>

\* line 110 and _check_deliverability, lines 147-148, for the address itself
DelivLookup(w) ==
    /\ worker[w].pc = "deliv"
    /\ LET me == [worker[w] EXCEPT !.last = NoLast]
           probing == [me EXCEPT !.probe = [NoProbe EXCEPT
                                               !.phase = "deliverability",
                                               !.key = me.email]]
       IN worker' = [worker EXCEPT ![w] =
            IF me.email \in DOMAIN domain_cache.deliverable
            THEN [WorkerAfterProbe(probing, domain_cache.deliverable[me.email],
                                   TransportError)
                      EXCEPT !.last = NoLast, !.probe = NoProbe]
            ELSE [probing EXCEPT !.pc = "resolve"]]
    /\ UNCHANGED <<envVars, output_file, data_files, existing_emails, domain_cache,
                   cpc, ret, frameVars, futures, done, outcome, stats, clock, hist>>

\* _check_deliverability, lines 151-152 and 172-175: resolve the MX hosts; an
\* error ends the probe with False
ProbeResolve(w) ==
    /\ worker[w].pc = "resolve"
    /\ \E ans \in DnsAnswersFor(worker[w].domain) :
         LET me == [worker[w] EXCEPT !.calls = @ \cup {"dns"}]
         IN IF ans.ok /\ ans.hosts # <<>>
            THEN /\ worker' = [worker EXCEPT ![w] =
                       [me EXCEPT !.pc = "attempt", !.probe.hosts = ans.hosts,
                                  !.probe.i = 1]]
                 /\ UNCHANGED domain_cache
            ELSE /\ worker' = [worker EXCEPT ![w] =
                       WorkerAfterProbe(me, FALSE, TransportError)]
                 /\ domain_cache' = CatchallAfterProbe(domain_cache, me, FALSE)
    /\ UNCHANGED <<envVars, output_file, data_files, existing_emails, cpc, ret,
                   frameVars, futures, done, outcome, stats, clock, hist>>

\* a deliverability map that keeps positive verdicts only
DeliverableAfterVerifyPositive(cache, key, code) ==
    IF IsDeliverableCode(code)
    THEN [cache EXCEPT !.deliverable = Put(@, key, TRUE)]
    ELSE cache

\* line 164: what a completed verification leaves in the deliverability map
DeliverableAfterVerify(cache, key, code) ==
    [cache EXCEPT !.deliverable = Put(@, key, IsDeliverableCode(code))]

\* _check_deliverability, lines 156-170 and 175: one host:port combination.
\* A transport error moves on to the next combination, or ends the probe with
\* False after the last.  A reply to VRFY is cached (line 164) and returned
\* (line 165) through the exit of the with block, which sends QUIT: when the
\* reply to QUIT is not 221 the exit raises, line 168 catches it and the sweep
\* moves on as after a transport error, the entry of line 164 staying.
Attempt(w) ==
    /\ worker[w].pc = "attempt"
    /\ \E combo \in {Combos(worker[w].probe.hosts)[worker[w].probe.i]} :
          \E reply \in SmtpRepliesFor(worker[w].probe.key, combo.host, combo.port) :
          \E quit \in (IF reply = TransportError THEN {QuitOk}
                                                ELSE QuitRepliesFor(combo.host)) :
            LET answered == reply # TransportError
                opened == [worker[w] EXCEPT
                              !.calls = @ \cup {"smtp"},
                              !.probe.tried = Append(@, combo),
                              !.probe.session = SessionCommands(combo.port)]
                me == IF answered
                      THEN [opened EXCEPT
                               !.probe.heard = reply,
                               !.probe.first =
                                   IF @.i = 0
                                   THEN [i |-> opened.probe.i, code |-> reply]
                                   ELSE @]
                      ELSE opened
                cache == IF answered
                         THEN DeliverableAfterVerify(domain_cache, me.probe.key, reply)
                         ELSE domain_cache
                last == me.probe.i = Len(Combos(me.probe.hosts))
            IN IF answered /\ quit = QuitOk
               THEN /\ worker' = [worker EXCEPT ![w] =
                          WorkerAfterProbe(me, IsDeliverableCode(reply), reply)]
                    /\ domain_cache' =
                          CatchallAfterProbe(cache, me, IsDeliverableCode(reply))
               ELSE IF last
                    THEN /\ worker' = [worker EXCEPT ![w] =
                               WorkerAfterProbe(me, FALSE, TransportError)]
                         /\ domain_cache' = CatchallAfterProbe(cache, me, FALSE)
                    ELSE /\ worker' = [worker EXCEPT ![w] =
                               [me EXCEPT !.probe.i = @ + 1]]
                         /\ domain_cache' = cache
    /\ UNCHANGED <<envVars, output_file, data_files, existing_emails, cpc, ret,
                   frameVars, futures, done, outcome, stats, clock, hist>>

\* a task that appends the row of its result to the store itself
FinishWritesRow(w) ==
    /\ worker[w].pc = "fin"
    /\ done' = Append(done, WithDate(worker[w].result))
    /\ worker' = [worker EXCEPT ![w] = IdleWorker]
    /\ output_file' = [output_file EXCEPT
                          !.rows = @ \o CsvRows(<<WithDate(worker[w].result)>>)]
    /\ UNCHANGED <<envVars, data_files, existing_emails, domain_cache,
                   cpc, ret, frameVars, futures, outcome, stats, clock, hist>>

\* a task whose result is lost when the validation caught an error
FinishDropsFailed(w) ==
    /\ worker[w].pc = "fin"
    /\ done' = IF worker[w].result.error # NoneV
               THEN done
               ELSE Append(done, WithDate(worker[w].result))
    /\ worker' = [worker EXCEPT ![w] = IdleWorker]
    /\ UNCHANGED <<envVars, output_file, data_files, existing_emails, domain_cache,
                   cpc, ret, frameVars, futures, outcome, stats, clock, hist>>

\* _validate_email, lines 88-90: the task is complete, its future is done
Finish(w) ==
    /\ worker[w].pc = "fin"
    /\ done' = Append(done, WithDate(worker[w].result))
    /\ worker' = [worker EXCEPT ![w] = IdleWorker]
    /\ UNCHANGED <<envVars, output_file, data_files, existing_emails, domain_cache,
                   cpc, ret, frameVars, futures, outcome, stats, clock, hist>>

(* --------------------------- specifications --------------------------- *)
WorkerStep(w) ==
    \/ StartValidate(w)
    \/ MxLookup(w)
    \/ MxResolve(w)
    \/ Disposable(w)
    \/ CatchallLookup(w)
    \/ DelivLookup(w)
    \/ ProbeResolve(w)
    \/ Attempt(w)
    \/ Finish(w)

CoordinatorStep ==
    \/ EnsureOutputFile
    \/ EnsureOutputFileFails
    \/ ReadInput
    \/ Collect
    \/ LoopExit
    \/ FinalFlush
    \/ WrChmod
    \/ WrChmodFails
    \/ WrAppend
    \/ WrAppendFails
    \/ WrLock
    \/ UpdateFiles
    \/ UpdateFilesFails
    \/ ClearCache
    \/ AnalyzeResults

\* lines 178-180: the script calls validate_emails once
MainCall == hist.calls = 0 /\ CallValidateEmails

\* the script.  A write inside the loop needs batch_size results: it, and the
\* shutdown after its failure, are reached on the batch inputs only.
Next ==
    \/ MainCall
    \/ CoordinatorStep
    \/ \E w \in Workers : WorkerStep(w)

Spec == Init /\ [][Next]_vars

\* the script on the batch inputs
NextBatch ==
    \/ MainCall
    \/ CoordinatorStep
    \/ Shutdown
    \/ \E w \in Workers : StartValidate(w) \/ Finish(w)

SpecBatch == InitBatch /\ [][NextBatch]_vars

\* the object used as a library: constructed again, validate_emails called
\* again, the Persistence Manager's append called on its own
NextObject ==
    \/ Construct
    \/ CallValidateEmails
    \/ CallWriteResultsEmpty
    \/ CoordinatorStep
    \/ \E w \in Workers : WorkerStep(w)

SpecObject == InitObject /\ [][NextObject]_vars

\* the script, and the Aggregator called on its own afterwards
NextAggregate ==
    \/ MainCall
    \/ CallUpdateFiles
    \/ CoordinatorStep
    \/ \E w \in Workers : WorkerStep(w)

SpecAggregate == InitAggregate /\ [][NextAggregate]_vars

\* the script with collaborators that answer by key
SpecDeterministic == InitDeterministic /\ [][Next]_vars

\* the script on two addresses of one domain with servers free to answer
SpecRace == InitRace /\ [][Next]_vars

\* the script on one address with the sessions free
SpecSweep == InitSweep /\ [][Next]_vars

\* the script under the scheduling of its threads: the coordinating thread
\* and each thread of the pool keep running while they can (blocking calls
\* end by their timeouts)
FairSpec ==
    /\ Spec
    /\ WF_vars(CoordinatorStep)
    /\ \A w \in Workers : WF_vars(WorkerStep(w))

(* ------------------------------- claims ------------------------------- *)
InputEmails == Range(NormalizedLines(input_file))

EmailsOf(rows) == {rows[i].email : i \in 1..Len(rows)}

\* the rows appended since the call began
NewRows == SubSeq(output_file.rows, Len(hist.rows0) + 1, Len(output_file.rows))

NoDuplicateRows(rows) ==
    \A i, j \in 1..Len(rows) : i # j => rows[i].email # rows[j].email

\* every flush of the call has been made
FlushesDone ==
    \/ cpc \in {"aggregate", "clear", "analyze"}
    \/ cpc = "idle" /\ outcome = "returned"

\* the workers that hold the finalized result of a validation
Finished == {w \in Workers : worker[w].pc = "fin"}

\* C1: idempotent resumption.  For a freshly constructed coordinator that
\* loaded a store of N distinct emails, on an input whose normalized emails
\* are those N and K new ones, one validate_emails run schedules exactly the
\* K new emails, no email is ever in two rows, and once its flushes are made
\* the store holds N + K rows, the new ones being those of the K emails.
C1_IdempotentResumption ==
    (/\ hist.kind = "validate_emails"
     /\ hist.since = 1
     /\ hist.load_ok
     /\ hist.read = "ok"
     /\ NoDuplicateRows(hist.rows0)
     /\ EmailsOf(hist.rows0) \subseteq InputEmails)
    => LET N == Len(hist.rows0)
           K == Cardinality(InputEmails \ EmailsOf(hist.rows0))
       IN /\ hist.scheduled = InputEmails \ EmailsOf(hist.rows0)
          /\ Cardinality(hist.scheduled) = K
          /\ NoDuplicateRows(output_file.rows)
          /\ FlushesDone =>
                /\ Len(output_file.rows) = N + K
                /\ EmailsOf(NewRows) = hist.scheduled

\* C1 witness: a run on a store of one email and an input of that email and
\* one new one has returned, the store holding two rows
C1_Witness ==
    /\ hist.kind = "validate_emails"
    /\ hist.since = 1
    /\ hist.load_ok
    /\ cpc = "idle"
    /\ outcome = "returned"
    /\ Len(hist.rows0) = 1
    /\ EmailsOf(hist.rows0) \subseteq InputEmails
    /\ Cardinality(hist.scheduled) = 1
    /\ Len(output_file.rows) = 2

\* C2: the emails a run schedules are the input lines that hold an '@',
\* trimmed and lowercased, without duplicates, less the emails in the store
\* as the run begins (the coordinator's load having succeeded).
C2_ScheduledSet ==
    (/\ hist.kind = "validate_emails"
     /\ hist.load_ok
     /\ hist.read = "ok")
    => hist.scheduled = InputEmails \ EmailsOf(hist.rows0)

\* C3: a run that has scheduled its emails ends, and when it has ended
\* without a failed append the rows it added are one for each scheduled email
\* and no other, whatever the validations raised.
C3_RunCompletes ==
    /\ []((/\ cpc = "idle"
           /\ hist.kind = "validate_emails"
           /\ ~hist.append_failed)
          => (/\ Len(NewRows) = Cardinality(hist.scheduled)
              /\ EmailsOf(NewRows) = hist.scheduled))
    /\ (cpc = "collect") ~> (cpc = "idle")

\* C3 witness: a run of two emails has returned with a row for each, the
\* validation of one having raised
C3_Witness ==
    /\ cpc = "idle"
    /\ outcome = "returned"
    /\ Cardinality(hist.scheduled) = 2
    /\ EmailsOf(NewRows) = hist.scheduled
    /\ \E i, j \in 1..Len(NewRows) : NewRows[i].error # "" /\ NewRows[j].error = ""

\* the number of scheduled emails of the run
Total == Cardinality(hist.scheduled)

\* the rows the appends of the run have written
RECURSIVE AppendedSize(_)
AppendedSize(appends) ==
    IF appends = <<>> THEN 0 ELSE Head(appends).size + AppendedSize(Tail(appends))

\* C4: batch-flush invariant.  In a run of T scheduled emails the store grows
\* by the coordinator's appends only; each append made while results are
\* collected holds exactly 100 results and leaves the buffer empty (so the
\* buffer holds the completed count modulo 100); the final flush is one
\* append of T mod 100 results, and there is none when T mod 100 = 0.
C4_BatchFlush ==
    (hist.kind = "validate_emails" /\ hist.read = "ok")
    => /\ Len(output_file.rows) = Len(hist.rows0) + AppendedSize(hist.appends)
       /\ \A i \in 1..Len(hist.appends) :
            /\ hist.appends[i].at = "loop" => hist.appends[i].size = 100
            /\ hist.appends[i].at = "final" =>
                  /\ i = Len(hist.appends)
                  /\ i = (Total \div 100) + 1
                  /\ hist.appends[i].size = Total % 100
                  /\ Total % 100 # 0
       /\ cpc = "collect" => Len(results) = pbar % 100
       /\ FlushesDone =>
            Len(hist.appends) = (Total \div 100) + (IF Total % 100 = 0 THEN 0 ELSE 1)

\* C4 witness: a run of more than 100 emails has returned after an append of
\* 100 results in the loop and a final flush of the rest
C4_Witness ==
    /\ cpc = "idle"
    /\ outcome = "returned"
    /\ Total = MaxBatchEmails
    /\ hist.appends = <<[size |-> 100, at |-> "loop"],
                        [size |-> MaxBatchEmails - 100, at |-> "final"]>>

\* C5: the finalized result of an email that fails the syntax gate has
\* has_mx_record, is_disposable, is_catchall and is_deliverable false and a
\* score of 0 (and so has its row); only the syntax gate was evaluated for it
\* and neither the resolver nor the SMTP prober was called; the step that
\* finalizes it leaves the cache as it was.
C5_SyntaxFailure ==
    /\ [](/\ \A w \in Finished :
               ~worker[w].result.is_valid =>
                  /\ ~worker[w].result.has_mx_record
                  /\ ~worker[w].result.is_disposable
                  /\ ~worker[w].result.is_catchall
                  /\ ~worker[w].result.is_deliverable
                  /\ worker[w].result.quality_score = 0
                  /\ worker[w].gates = {"syntax"}
                  /\ worker[w].calls = {"validate_email"}
          /\ \A i \in 1..Len(NewRows) :
               NewRows[i].is_valid = "False" =>
                  /\ NewRows[i].has_mx_record = "False"
                  /\ NewRows[i].is_disposable = "False"
                  /\ NewRows[i].is_catchall = "False"
                  /\ NewRows[i].is_deliverable = "False"
                  /\ NewRows[i].quality_score = "0.0")
    /\ [][\A w \in Workers :
            (/\ worker[w].pc = "idle"
             /\ worker'[w].pc = "fin"
             /\ ~worker'[w].result.is_valid)
            => domain_cache' = domain_cache]_vars

\* C5 witness: the syntax gate has rejected an email and its result is final
C5_Witness ==
    \E w \in Finished :
        /\ ~worker[w].result.is_valid
        /\ worker[w].result.error = NoneV
        /\ worker[w].calls = {"validate_email"}

\* C6: the finalized result of a syntactically valid email whose domain has
\* no MX record shows the syntax and MX gates evaluated and no other, the
\* later fields false, and a score of 0.2, the weight of is_valid.
C6_NoMxScore ==
    \A w \in Finished :
        (/\ worker[w].result.is_valid
         /\ worker[w].result.error = NoneV
         /\ ~worker[w].result.has_mx_record)
        => /\ worker[w].gates = {"syntax", "mx"}
           /\ ~worker[w].result.is_disposable
           /\ ~worker[w].result.is_catchall
           /\ ~worker[w].result.is_deliverable
           /\ worker[w].result.quality_score = weight

\* C7: a result that records an exception of the gate chain has its five
\* booleans false and a score of 0.
C7_ExceptionResult ==
    \A w \in Finished :
        worker[w].result.error # NoneV
        => /\ ~worker[w].result.is_valid
           /\ ~worker[w].result.has_mx_record
           /\ ~worker[w].result.is_disposable
           /\ ~worker[w].result.is_catchall
           /\ ~worker[w].result.is_deliverable
           /\ worker[w].result.quality_score = 0

Probed == {w \in Workers : worker[w].last.key # <<>>}

Returned(w) ==
    IF worker[w].pc = "deliv"
    THEN worker[w].result.is_catchall
    ELSE worker[w].result.is_deliverable

C9_EmptyAppendNoOp ==
    (hist.kind = "write_results" /\ cpc = "idle" /\ ~hist.fault)
    => /\ outcome = "returned"
       /\ output_file.rows = hist.rows0
       /\ output_file.mode = hist.mode0

\* C10: after a validate_emails call that has read its input and returned,
\* the store is read-only, also when the call found no new email.
C10_ReadOnlyAtRest ==
    (/\ hist.kind = "validate_emails"
     /\ hist.load_ok
     /\ hist.read = "ok"
     /\ cpc = "idle"
     /\ outcome = "returned")
    => output_file.mode = "ro"

\* the coordinating thread is inside _write_results
Appending == cpc \in {"wr_chmod", "wr_append", "wr_lock"}

\* C11: once an append of a run has failed, the run makes no other append
\* and no aggregation pass: the coordinating thread only waits for the pool
\* and raises, and the rows, the list files and the statistics stay as the
\* failure found them, the rows being those of the store as the run began
\* and of the appends made before.
C11_AppendFailureFatal ==
    /\ []((hist.kind = "validate_emails" /\ hist.append_failed)
          => /\ cpc \in {"shutdown", "idle"}
             /\ cpc = "idle" => outcome = "raised"
             /\ Len(output_file.rows) = Len(hist.rows0) + AppendedSize(hist.appends)
             /\ SubSeq(output_file.rows, 1, Len(hist.rows0)) = hist.rows0)
    /\ [][(hist.kind = "validate_emails" /\ hist.append_failed)
          => /\ output_file.rows' = output_file.rows
             /\ hist'.appends = hist.appends
             /\ data_files' = data_files
             /\ stats' = stats]_vars

\* C11 witness: the final flush of a run has failed after an append of 100
\* rows, the run has raised, and the 100 rows are in the store
C11_Witness ==
    /\ hist.kind = "validate_emails"
    /\ hist.append_failed
    /\ cpc = "idle"
    /\ outcome = "raised"
    /\ hist.appends = <<[size |-> 100, at |-> "loop"]>>
    /\ Len(output_file.rows) = 100
    /\ data_files = EmptyDataFiles

\* C12: a validate_emails call whose input could not be read ends by raising.
C12_InputFailureAborts ==
    (/\ hist.kind = "validate_emails"
     /\ hist.read = "failed"
     /\ cpc = "idle")
    => outcome = "raised"

\* C13: a run of a coordinator whose load succeeded, on a store that held no
\* email twice as the run began, leaves no email in two rows of the store.
C13_NoDuplicateAfterRuns ==
    (/\ hist.kind = "validate_emails"
     /\ hist.load_ok
     /\ NoDuplicateRows(hist.rows0))
    => NoDuplicateRows(output_file.rows)

\* C14: the disposable snapshot is the blocklist less the allowlist in every
\* state, and the three maps are empty after a reset.
C14_ResetIsFresh ==
    /\ domain_cache.disposable = blocklist \ allowlist
    /\ hist.resets > 0 /\ cpc \in {"analyze", "idle"} => domain_cache = FreshCache

\* C19: a validate_emails call that has ended has made exactly one reset.
C19_OneResetPerRun ==
    (/\ hist.kind = "validate_emails"
     /\ hist.read = "ok"
     /\ ~hist.fault
     /\ cpc = "idle")
    => hist.resets = 1

\* C20: the store changes only by a step of the coordinating thread, in
\* _ensure_output_file or in _write_results, in which no worker moves; an
\* append in progress ends before another begins and its buffer stays as it
\* is until then.
C20_StoreExclusivity ==
    /\ [][output_file' # output_file
          => /\ cpc \in {"ensure", "wr_chmod", "wr_append", "wr_lock"}
             /\ worker' = worker
             /\ done' = done
             /\ futures' = futures]_vars
    /\ [][Appending
          => /\ cpc' # cpc => cpc' \in {"wr_append", "wr_lock", ret, "shutdown", "idle"}
             /\ (cpc' \in {"wr_append", "wr_lock"}) => results' = results]_vars
    /\ [](Appending => ret \in {"collect", "aggregate", "idle"})

\* C20 witness: an append of the loop is in progress while a worker is still
\* executing a task
C20_Witness ==
    /\ cpc = "wr_append"
    /\ ret = "collect"
    /\ \E w \in Workers : worker[w].pc # "idle"

\* what the gates give for an email when the collaborators answer by key,
\* whatever the other tasks do
ExpectedResult(email) ==
    LET domain == Split(email, "@")[2]
        answered == \E host \in {"h1", "h2"} : host \notin oracle.deaf
        catchall == answered /\ domain \in oracle.catchall
        deliverable == answered /\ (email \in oracle.deliverable \/ domain \in oracle.catchall)
        none == [is_valid |-> FALSE, has_mx_record |-> FALSE, is_disposable |-> FALSE,
                 is_catchall |-> FALSE, is_deliverable |-> FALSE, quality_score |-> 0,
                 error |-> NoneV]
    IN CASE email \in oracle.invalid -> none
         [] email \notin oracle.invalid /\ domain \in oracle.nomx ->
              [none EXCEPT !.is_valid = TRUE]
         [] email \notin oracle.invalid /\ domain \notin oracle.nomx
               /\ domain \notin blocklist \ allowlist ->
              [none EXCEPT !.is_valid = TRUE, !.has_mx_record = TRUE,
                           !.is_disposable = TRUE]
         [] OTHER ->
              [none EXCEPT !.is_valid = TRUE, !.has_mx_record = TRUE,
                           !.is_catchall = catchall, !.is_deliverable = deliverable,
                           !.quality_score = 6 + (IF catchall THEN 0 ELSE 2)
                                               + (IF deliverable THEN 2 ELSE 0)]

\* the fields of a row are those of the result r
SameFields(row, r) ==
    /\ row.is_valid = BoolStr(r.is_valid)
    /\ row.has_mx_record = BoolStr(r.has_mx_record)
    /\ row.is_disposable = BoolStr(r.is_disposable)
    /\ row.is_catchall = BoolStr(r.is_catchall)
    /\ row.is_deliverable = BoolStr(r.is_deliverable)
    /\ row.quality_score = ScoreStr(r.quality_score)
    /\ row.error = (IF r.error = NoneV THEN "" ELSE r.error)

\* C17: with collaborators that answer by key, the fields of the row of each
\* scheduled email are a function of the email and of the answers alone: in
\* every interleaving of the workers and every completion order, each
\* finalized result and each row written has the fields the gates give for
\* its email on their own.
C17_Deterministic ==
    oracle.on =>
        /\ \A w \in Finished :
             SameFields(CsvRow(WithDate(worker[w].result)),
                        ExpectedResult(worker[w].email))
        /\ \A i \in 1..Len(NewRows) :
             SameFields(NewRows[i], ExpectedResult(NewRows[i].email))

\* C17 witness: two workers have each probed the catchall status of the same
\* domain and stored it, and the run has then written a row for each
C17_Witness ==
    /\ oracle.on
    /\ \E w1, w2 \in Workers :
         /\ w1 # w2
         /\ worker[w1].pc = "deliv" /\ worker[w1].last.key # <<>>
         /\ worker[w2].pc = "deliv" /\ worker[w2].last.key # <<>>
         /\ worker[w1].domain = worker[w2].domain
         /\ worker[w1].result.is_catchall

\* C18: a key of the MX, catchall or deliverability map keeps its value in
\* every step that is not a reset.
C18_CacheMonotonic ==
    [][hist'.resets = hist.resets
       => \A m \in {"mx_records", "catchall", "deliverable"} :
            \A k \in DOMAIN domain_cache[m] :
               /\ k \in DOMAIN domain_cache'[m]
               /\ domain_cache'[m][k] = domain_cache[m][k]]_vars

\* this step is a pass of update_files that completes
PassCompletes == cpc = "aggregate" /\ cpc' # "aggregate" /\ ~hist'.fault

\* the entries the rows of the store give to a list file
DerivedEntries(file, rows) ==
    CASE file = "valid_domains" ->
            {Split(rows[i].email, "@")[2] :
                i \in {j \in 1..Len(rows) : rows[j].has_mx_record = "True"}}
      [] file = "catchall_domains" ->
            {Split(rows[i].email, "@")[2] :
                i \in {j \in 1..Len(rows) : rows[j].is_catchall = "True"}}
      [] file = "not_catchall_domains" ->
            {Split(rows[i].email, "@")[2] :
                i \in {j \in 1..Len(rows) : rows[j].is_catchall = "False"}}
      [] OTHER ->
            {rows[i].email : i \in {j \in 1..Len(rows) : rows[j].is_deliverable = "True"}}

\* C15: a pass of update_files on a store whose rows are those of the pass
\* before leaves the four list files as that pass left them.
C15_AggregationIdempotent ==
    [][(PassCompletes /\ hist.agg.done /\ hist.agg.rows = output_file.rows)
       => data_files' = data_files]_vars

\* C16: a pass of update_files that completes leaves each list file with the
\* entries it held and the entries the rows of the store give, and no other.
C16_ListsOnlyGrow ==
    [][PassCompletes
       => \A file \in DOMAIN data_files :
             /\ data_files[file] \subseteq data_files'[file]
             /\ data_files'[file] =
                   data_files[file] \cup DerivedEntries(file, output_file.rows)]_vars

\* the gates a result finalized at the disposable gate has passed
DisposableGates == {"syntax", "mx", "disposable"}

\* the places of a task inside the SMTP probes (catchall or deliverability)
ProbePlaces == {"catch", "deliv", "resolve", "attempt"}

\* C21: a task reaches the disposable gate only past the syntax and MX gates,
\* and there is_disposable is true exactly when its domain is NOT in the
\* cached disposable snapshot.  A task whose flag is true is finalized at
\* once, with is_catchall and is_deliverable false, no probe begun or ended
\* and no SMTP session opened; a task that is inside a probe, has ended one
\* or has opened an SMTP session has is_valid and has_mx_record true and
\* is_disposable false.
C21_DisposableGate ==
    \A w \in Workers :
        LET me == worker[w]
            probing == \/ me.pc \in ProbePlaces
                       \/ me.probe # NoProbe
                       \/ me.last # NoLast
                       \/ "smtp" \in me.calls
                       \/ me.gates \cap {"catchall", "deliverability"} # {}
        IN /\ "disposable" \in me.gates
              => /\ DisposableGates \subseteq me.gates
                 /\ me.result.is_valid
                 /\ me.result.has_mx_record
                 /\ me.result.is_disposable <=> me.domain \notin domain_cache.disposable
           /\ me.result.is_disposable
              => /\ me.pc = "fin"
                 /\ me.gates = DisposableGates
                 /\ ~me.result.is_catchall
                 /\ ~me.result.is_deliverable
                 /\ ~probing
           /\ probing
              => /\ "disposable" \in me.gates
                 /\ me.result.is_valid
                 /\ me.result.has_mx_record
                 /\ ~me.result.is_disposable

\* C21 witness: a task finalized at the disposable gate, its domain absent
\* from the snapshot, while another domain is in it
C21_Witness ==
    \E w \in Workers :
        /\ worker[w].pc = "fin"
        /\ worker[w].gates = DisposableGates
        /\ worker[w].result.is_disposable
        /\ worker[w].domain \notin domain_cache.disposable
        /\ domain_cache.disposable # {}

\* the n-th combination of a sweep over hosts as the spec orders it: the
\* hosts as resolved, and for each host the ports 25, 587, 465
SweepPlace(hosts, n) ==
    [host |-> hosts[((n - 1) \div 3) + 1],
     port |-> <<25, 587, 465>>[((n - 1) % 3) + 1]]

\* the combinations of tried are the first of the sweep over hosts, each
\* once, and the latest session greets, negotiates transport security and
\* greets again when it is on port 587 and only then, and then verifies
InSweepOrder(hosts, tried, session) ==
    /\ Len(tried) <= 3 * Len(hosts)
    /\ \A n \in 1..Len(tried) : tried[n] = SweepPlace(hosts, n)
    /\ \A m, n \in 1..Len(tried) : tried[m] = tried[n] => m = n
    /\ session = IF tried = <<>> THEN <<>>
                 ELSE IF tried[Len(tried)].port = 587
                      THEN <<"ehlo", "starttls", "ehlo", "vrfy">>
                      ELSE <<"ehlo", "vrfy">>

C23_FirstResponseEnds ==
    \A w \in Probed :
        LET probe == worker[w].probe
        IN IF probe.first.i # 0
           THEN /\ Returned(w) = IsDeliverableCode(probe.first.code)
                /\ Len(probe.tried) = probe.first.i
           ELSE /\ ~Returned(w)
                /\ \/ probe.hosts = <<>>
                   \/ Len(probe.tried) = 3 * Len(probe.hosts)

\* C23 witness: a probe whose first answer was 250 has gone on to a later
\* combination, and has returned false
C23_Witness ==
    \E w \in Probed :
        /\ worker[w].probe.first.code = 250
        /\ Len(worker[w].probe.tried) > worker[w].probe.first.i
        /\ ~Returned(w)
        /\ domain_cache.deliverable[worker[w].last.key]

====
